---- MODULE Spec2Model ----
(***************************************************************************)
(* Model of app.py, the Energy Charts dashboard: one cached CSV load       *)
(* (load_data), the monthly statistics (calculate_monthly_stats), the      *)
(* solar capture prices (calculate_capture_prices and the yearly overview  *)
(* of main) and the scatter/compare filters of main.                       *)
(*                                                                         *)
(* Prices, loads and solar output are integers; the float64 results of     *)
(* pandas (means, ratios) are exact rationals plus the three special       *)
(* values NaN, +inf and -inf with the IEEE-754 rules pandas/numpy apply to *)
(* a division by zero.                                                     *)
(***************************************************************************)
EXTENDS Integers, Sequences, FiniteSets, TLC

VARIABLES file, cache, reads, df, pc, ui, calls, stats_df, cap_df, y_res, runs, changed

vars == <<file, cache, reads, df, pc, ui, calls, stats_df, cap_df, y_res, runs, changed>>

(* ------------------------------ bounds -------------------------------- *)

\* number of calendar days (slots of AllSlots) a CSV file may hold rows for
NumSlots == 4

\* number of script reruns of main in one process
MaxReruns == 2

(* ------------------------- float64 values ----------------------------- *)

Abs(x) == IF x < 0 THEN -x ELSE x

RECURSIVE GCD(_, _)
GCD(a, b) == IF b = 0 THEN a ELSE GCD(b, a % b)

NaN == [k |-> "nan", n |-> 0, d |-> 1]
PosInf == [k |-> "inf", n |-> 1, d |-> 1]
NegInf == [k |-> "inf", n |-> -1, d |-> 1]

\* the rational n/d (d # 0) in lowest terms with a positive denominator
Num(n, d) ==
    LET g == GCD(Abs(n), Abs(d))
        s == IF d < 0 THEN -1 ELSE 1
    IN [k |-> "num", n |-> (s * n) \div g, d |-> (s * d) \div g]

Int2F(i) == Num(i, 1)

IsNum(v) == v.k = "num"
IsNaN(v) == v.k = "nan"
IsInf(v) == v.k = "inf"

Sign(i) == IF i > 0 THEN 1 ELSE IF i < 0 THEN -1 ELSE 0

\* float64 subtraction a - b
FSub(a, b) ==
    IF IsNaN(a) \/ IsNaN(b) THEN NaN
    ELSE IF IsInf(a) /\ IsInf(b) THEN (IF a.n = b.n THEN NaN ELSE a)
    ELSE IF IsInf(a) THEN a
    ELSE IF IsInf(b) THEN [b EXCEPT !.n = -b.n]
    ELSE Num(a.n * b.d - b.n * a.d, a.d * b.d)

\* float64 division a / b as numpy performs it: x/0 is +-inf, 0/0 is NaN
FDiv(a, b) ==
    IF IsNaN(a) \/ IsNaN(b) THEN NaN
    ELSE IF IsInf(a) /\ IsInf(b) THEN NaN
    ELSE IF IsInf(a) THEN (IF Sign(a.n) * Sign(b.n) < 0 THEN NegInf ELSE PosInf)
    ELSE IF IsInf(b) THEN Num(0, 1)
    ELSE IF b.n = 0 THEN (IF a.n = 0 THEN NaN ELSE IF a.n > 0 THEN PosInf ELSE NegInf)
    ELSE Num(a.n * b.d, a.d * b.n)

RECURSIVE SumSeq(_)
SumSeq(s) == IF s = <<>> THEN 0 ELSE Head(s) + SumSeq(Tail(s))

\* Series.mean() of an integer column: NaN for an empty series
Mean(s) == IF s = <<>> THEN NaN ELSE Num(SumSeq(s), Len(s))

\* the sum of a sequence of finite float64 values
RECURSIVE FSum(_)
FSum(s) ==
    IF s = <<>> THEN Num(0, 1)
    ELSE LET h == Head(s)
             t == FSum(Tail(s))
         IN Num(h.n * t.d + t.n * h.d, h.d * t.d)

\* Series.mean() of a float column with skipna=True: NaN entries are left out
MeanSkipNa(s) ==
    LET def == SelectSeq(s, IsNum)
    IN IF def = <<>> THEN NaN ELSE FDiv(FSum(def), Int2F(Len(def)))

(* --------------------------- the CSV file ----------------------------- *)

\* the calendar days <<year, month, day>> a file may hold rows for, in file order
AllSlots == << <<2024, 1, 1>>, <<2025, 1, 1>>, <<2024, 2, 1>>, <<2024, 1, 2>>,
               <<2025, 2, 1>>, <<2025, 2, 2>> >>

Slots == SubSeq(AllSlots, 1, NumSlots)

\* the hours of one day, each <<day_ahead_price_eur_mwh, residual_load_mw_avg, solar_mw_avg>>
Absent == << >>
Ramp8 == << <<50, -5, 1>>, <<10, 0, 0>>, <<80, 60000, 0>>, <<20, 60001, 0>>,
            <<70, 100, 0>>, <<30, 100, 0>>, <<60, 100, 0>>, <<40, 100, 1>> >>
Long9 == << <<9, 100, 1>>, <<5, 100, 0>>, <<9, 100, 0>>, <<5, 100, 0>>, <<7, 100, 2>>,
            <<5, 100, 0>>, <<9, 100, 0>>, <<5, 100, 0>>, <<9, 100, 0>> >>
ZeroMean2 == << <<-10, -5, 1>>, <<10, 70000, 3>> >>
Zero2 == << <<0, 0, 2>>, <<0, 100, 0>> >>
NegOnly2 == << <<-12, -5, 1>>, <<-20, 100, 0>> >>
PosNoSolar2 == << <<15, 100, 0>>, <<-5, 100, 2>> >>

DayTemplates == {Absent, Ramp8, Long9, ZeroMean2, Zero2, NegOnly2, PosNoSolar2}

\* the CSV rows of one day: one row per hour, datetime_utc holds the digits yyyymmddhh of the hour's timestamp
DayRows(slot, hours) ==
    [h \in 1..Len(hours) |->
        [datetime_utc |-> slot[1] * 1000000 + slot[2] * 10000 + slot[3] * 100 + (h - 1),
         day_ahead_price_eur_mwh |-> hours[h][1],
         residual_load_mw_avg |-> hours[h][2],
         solar_mw_avg |-> hours[h][3]]]

\* the days each slot may hold, in the order of AllSlots
SlotTemplates == << {Absent, Ramp8, Zero2, NegOnly2, PosNoSolar2},
                   {Absent, NegOnly2, Long9},
                   {Absent, Ramp8, ZeroMean2, Zero2},
                   {Absent, Ramp8, ZeroMean2},
                   {Absent, Ramp8},
                   {Absent, ZeroMean2} >>

\* the contents a CSV file may have: a header and at least one hourly row
RECURSIVE Choices(_)
Choices(i) ==
    IF i > NumSlots THEN {<< >>}
    ELSE {<<t>> \o c : t \in SlotTemplates[i], c \in Choices(i + 1)}

RECURSIVE FileRows(_, _)
FileRows(choice, i) ==
    IF choice = << >> THEN << >>
    ELSE DayRows(Slots[i], Head(choice)) \o FileRows(Tail(choice), i + 1)

Datasets == {FileRows(c, 1) : c \in Choices(1)} \ {<< >>}

CsvColumns == {"datetime_utc", "residual_load_mw_avg", "day_ahead_price_eur_mwh", "solar_mw_avg"}

(* ---------------------------- DataFrames ------------------------------ *)

\* a DataFrame: its columns and its rows, each row a function on the columns
Frame(cols, rows) == [cols |-> cols, rows |-> rows]

None == [cols |-> {"None"}, rows |-> << >>]

\* df[c] = values: the frame with column c set, row by row, to the values
WithColumn(f, c, values) ==
    LET rows == f.rows
        cols == f.cols \cup {c}
    IN Frame(cols, [i \in 1..Len(rows) |->
                      [x \in cols |-> IF x = c THEN values[i] ELSE rows[i][x]]])

\* the rows at which the boolean mask is TRUE, in row order
Keep(rows, mask) ==
    LET kept == SelectSeq([i \in 1..Len(rows) |-> i], LAMBDA i : mask[i])
    IN [k \in 1..Len(kept) |-> rows[kept[k]]]

\* df[mask]: a new frame holding the rows that pass the boolean mask
Filter(f, mask) == Frame(f.cols, Keep(f.rows, mask))

\* pd.read_csv followed by the derived columns of load_data
ReadCsv(rows) == Frame(CsvColumns, rows)

\* pd.to_datetime: the timestamp <<year, month, day, hour>> parsed from the text
to_datetime(t) == <<t \div 1000000, (t \div 10000) % 100, (t \div 100) % 100, t % 100>>

dt_year(ts) == ts[1]
dt_month(ts) == ts[2]
\* .dt.date: the calendar day, ordered as yyyymmdd
dt_date(ts) == ts[1] * 10000 + ts[2] * 100 + ts[3]

\* the body of load_data when the file exists (lines 18-23)
load_data_body(rows) ==
    LET d0 == ReadCsv(rows)
        d1 == WithColumn(d0, "datetime",
                         [i \in 1..Len(rows) |-> to_datetime(d0.rows[i]["datetime_utc"])])
        d2 == WithColumn(d1, "year", [i \in 1..Len(rows) |-> dt_year(d1.rows[i]["datetime"])])
        d3 == WithColumn(d2, "month", [i \in 1..Len(rows) |-> dt_month(d2.rows[i]["datetime"])])
    IN WithColumn(d3, "date", [i \in 1..Len(rows) |-> dt_date(d3.rows[i]["datetime"])])

(* ------------------------------ groupby ------------------------------- *)

\* tuples of integers in lexicographic order
LexLess(a, b) ==
    \E i \in 1..Len(a) : a[i] < b[i] /\ \A j \in 1..(i - 1) : a[j] = b[j]

RECURSIVE SortedKeys(_)
SortedKeys(S) ==
    IF S = {} THEN << >>
    ELSE LET m == CHOOSE k \in S : \A o \in S \ {k} : LexLess(k, o)
         IN <<m>> \o SortedKeys(S \ {m})

KeyOf(r, by) == [i \in 1..Len(by) |-> r[by[i]]]

\* groupby(by): the group keys that occur in the rows, sorted
GroupKeys(rows, by) == SortedKeys({KeyOf(rows[i], by) : i \in 1..Len(rows)})

\* the rows of one group, in row order
GroupRows(rows, by, key) == SelectSeq(rows, LAMBDA r : KeyOf(r, by) = key)

ColumnOf(rows, c) == [i \in 1..Len(rows) |-> rows[i][c]]

(* ----------------------- calculate_monthly_stats ---------------------- *)

RECURSIVE Insert(_, _)
Insert(x, s) ==
    IF s = << >> THEN <<x>>
    ELSE IF x < Head(s) THEN <<x>> \o s
    ELSE <<Head(s)>> \o Insert(x, Tail(s))

\* Series.sort_values(): ascending
RECURSIVE sort_values(_)
sort_values(s) == IF s = << >> THEN << >> ELSE Insert(Head(s), sort_values(Tail(s)))

\* the value Python's None takes among float64 values before it is stored
PyNone == [k |-> "none", n |-> 0, d |-> 1]

\* a daily group needs this many hourly rows for its spread
MinHours == 8

\* the number of prices averaged at each end of the sorted day
EndHours == 4

\* daily_spread with a short day's spread counted as 0 instead of left undefined
daily_spread_zero(g) ==
    LET sorted_prices == sort_values(ColumnOf(g, "day_ahead_price_eur_mwh"))
        n == Len(sorted_prices)
    IN IF n < MinHours THEN Num(0, 1)
       ELSE FSub(Mean(SubSeq(sorted_prices, n - EndHours + 1, n)),
                 Mean(SubSeq(sorted_prices, 1, EndHours)))

daily_spread(g) ==
    LET sorted_prices == sort_values(ColumnOf(g, "day_ahead_price_eur_mwh"))
        n == Len(sorted_prices)
    IN IF n < MinHours THEN PyNone
       ELSE FSub(Mean(SubSeq(sorted_prices, n - EndHours + 1, n)),
                 Mean(SubSeq(sorted_prices, 1, EndHours)))

DayKey == <<"year", "month", "date">>
MonthKey == <<"year", "month">>

\* groupby(['year','month','date']).apply(daily_spread): one value per day
daily_values(rows) ==
    LET keys == GroupKeys(rows, DayKey)
    IN [i \in 1..Len(keys) |->
          [year |-> keys[i][1], month |-> keys[i][2], date |-> keys[i][3],
           spread |-> daily_spread(GroupRows(rows, DayKey, keys[i]))]]

\* pandas returns an empty DataFrame from apply when every group returned None;
\* reset_index(name='spread') is then a TypeError (name is a Series-only argument)
daily_spreads_raises(values) ==
    \A i \in 1..Len(values) : values[i].spread = PyNone

\* the Series built from the values is float64: None is stored as NaN
daily_spreads(values) ==
    [i \in 1..Len(values) |->
        [values[i] EXCEPT !.spread = IF @ = PyNone THEN NaN ELSE @]]

monthly_spread(ds) ==
    LET keys == GroupKeys(ds, MonthKey)
    IN [i \in 1..Len(keys) |->
          [year |-> keys[i][1], month |-> keys[i][2],
           avg_spread |-> MeanSkipNa(ColumnOf(GroupRows(ds, MonthKey, keys[i]), "spread"))]]

HighResidual == 60000

res_neg(r) == r["residual_load_mw_avg"] < 0
\* res_high with the bound itself let through
res_high_ge(r) == r["residual_load_mw_avg"] >= HighResidual

res_high(r) == r["residual_load_mw_avg"] > HighResidual
price_neg(r) == r["day_ahead_price_eur_mwh"] < 0

monthly_agg(g) ==
    [avg_price |-> Mean(ColumnOf(g, "day_ahead_price_eur_mwh")),
     neg_hours |-> Len(SelectSeq(g, price_neg)),
     avg_price_res_neg |-> Mean(ColumnOf(SelectSeq(g, res_neg), "day_ahead_price_eur_mwh")),
     avg_price_res_high |-> Mean(ColumnOf(SelectSeq(g, res_high), "day_ahead_price_eur_mwh"))]

monthly_stats(rows) ==
    LET keys == GroupKeys(rows, MonthKey)
    IN [i \in 1..Len(keys) |->
          LET a == monthly_agg(GroupRows(rows, MonthKey, keys[i]))
          IN [year |-> keys[i][1], month |-> keys[i][2], avg_price |-> a.avg_price,
              neg_hours |-> a.neg_hours, avg_price_res_neg |-> a.avg_price_res_neg,
              avg_price_res_high |-> a.avg_price_res_high]]

\* pd.merge(left, right, on=['year','month']) (inner): one row per matching pair,
\* in the order of the left rows
RECURSIVE merge_stats(_, _)
merge_stats(left, right) ==
    IF left = << >> THEN << >>
    ELSE LET l == Head(left)
             m == SelectSeq(right, LAMBDA r : r.year = l.year /\ r.month = l.month)
         IN [j \in 1..Len(m) |->
               [year |-> l.year, month |-> l.month, avg_price |-> l.avg_price,
                neg_hours |-> l.neg_hours, avg_price_res_neg |-> l.avg_price_res_neg,
                avg_price_res_high |-> l.avg_price_res_high,
                avg_spread |-> m[j].avg_spread]]
            \o merge_stats(Tail(left), right)

\* the call's outcome: the merged table, or the exception that ends the script run
calculate_monthly_stats(f) ==
    LET values == daily_values(f.rows)
    IN IF daily_spreads_raises(values)
       THEN [raised |-> TRUE, table |-> << >>]
       ELSE [raised |-> FALSE,
             table |-> merge_stats(monthly_stats(f.rows), monthly_spread(daily_spreads(values)))]

(* ------------------- objects and the names bound to them -------------- *)

\* the DataFrame objects main and calculate_capture_prices create or write to
Objects == {"df", "cp_df", "yearly_df", "sel1", "sel2", "d1", "d2"}

\* copy left out: the name stays bound to the source object
copy_alias(h, src, new) == [ref |-> src, heap |-> h]

\* DataFrame.copy(): a new object with the same columns and rows; the name bound to
\* the result refers to the new object
copy(h, src, new) == [ref |-> new, heap |-> [h EXCEPT ![new] = h[src]]]

\* df[c] = values: the column is written on the object the name refers to
setitem(h, ref, c, values) == [h EXCEPT ![ref] = WithColumn(h[ref], c, values)]

\* df[mask]: boolean indexing builds a new object
getitem_mask(h, src, new, mask) == [h EXCEPT ![new] = Filter(h[src], mask)]

\* the objects at the start of a step of main: only df is live
HeapOf(f) == [o \in Objects |-> IF o = "df" THEN f ELSE None]

(* ---------------------- calculate_capture_prices ---------------------- *)

\* df['solar_mw_avg'] * df['day_ahead_price_eur_mwh']
solar_revenue(f) ==
    LET rows == f.rows
    IN [i \in 1..Len(rows) |-> rows[i]["solar_mw_avg"] * rows[i]["day_ahead_price_eur_mwh"]]

\* df['day_ahead_price_eur_mwh'] >= 0
price_nonneg(f) ==
    LET rows == f.rows
    IN [i \in 1..Len(rows) |-> rows[i]["day_ahead_price_eur_mwh"] >= 0]

\* (df['year'] == y) & (df['month'] == m)
year_month_mask(f, y, m) ==
    LET rows == f.rows
    IN [i \in 1..Len(rows) |-> rows[i]["year"] = y /\ rows[i]["month"] = m]

\* groupby(['year','month']).agg(sum, sum, mean) over all hours
monthly_grouped(rows) ==
    LET keys == GroupKeys(rows, MonthKey)
    IN [i \in 1..Len(keys) |->
          LET g == GroupRows(rows, MonthKey, keys[i])
          IN [year |-> keys[i][1], month |-> keys[i][2],
              solar_mw_avg |-> Int2F(SumSeq(ColumnOf(g, "solar_mw_avg"))),
              solar_revenue |-> Int2F(SumSeq(ColumnOf(g, "solar_revenue"))),
              day_ahead_price_eur_mwh |-> Mean(ColumnOf(g, "day_ahead_price_eur_mwh"))]]

\* the same sums over the hours with a non-negative price
monthly_pos(rows) ==
    LET keys == GroupKeys(rows, MonthKey)
    IN [i \in 1..Len(keys) |->
          LET g == GroupRows(rows, MonthKey, keys[i])
          IN [year |-> keys[i][1], month |-> keys[i][2],
              solar_mw_pos |-> Int2F(SumSeq(ColumnOf(g, "solar_mw_avg"))),
              solar_rev_pos |-> Int2F(SumSeq(ColumnOf(g, "solar_revenue")))]]

\* capture_columns with the capture rate scaled to a percentage
capture_columns_percent(l, pos, rev) ==
    LET pv == FDiv(l.solar_revenue, l.solar_mw_avg)
        base == l.day_ahead_price_eur_mwh
    IN [year |-> l.year, month |-> l.month, solar_mw_avg |-> l.solar_mw_avg,
        solar_revenue |-> l.solar_revenue,
        day_ahead_price_eur_mwh |-> l.day_ahead_price_eur_mwh,
        solar_mw_pos |-> pos, solar_rev_pos |-> rev,
        pv_price |-> pv, pv_price_pos |-> FDiv(rev, pos),
        baseload_price |-> base,
        capture_rate |-> FDiv(IF IsNum(pv) THEN Num(100 * pv.n, pv.d) ELSE pv, base)]

\* the derived columns of lines 75-78 on one merged row
capture_columns(l, pos, rev) ==
    LET pv == FDiv(l.solar_revenue, l.solar_mw_avg)
        base == l.day_ahead_price_eur_mwh
    IN [year |-> l.year, month |-> l.month, solar_mw_avg |-> l.solar_mw_avg,
        solar_revenue |-> l.solar_revenue,
        day_ahead_price_eur_mwh |-> l.day_ahead_price_eur_mwh,
        solar_mw_pos |-> pos, solar_rev_pos |-> rev,
        pv_price |-> pv, pv_price_pos |-> FDiv(rev, pos),
        baseload_price |-> base, capture_rate |-> FDiv(pv, base)]

\* merge_capture as an inner merge: a left row without a match is dropped
RECURSIVE merge_capture_inner(_, _)
merge_capture_inner(left, right) ==
    IF left = << >> THEN << >>
    ELSE LET l == Head(left)
             m == SelectSeq(right, LAMBDA r : r.year = l.year /\ r.month = l.month)
         IN [j \in 1..Len(m) |-> capture_columns(l, m[j].solar_mw_pos, m[j].solar_rev_pos)]
            \o merge_capture_inner(Tail(left), right)

\* pd.merge(..., how='left'): every left row is kept; without a match the right
\* columns are NaN
RECURSIVE merge_capture(_, _)
merge_capture(left, right) ==
    IF left = << >> THEN << >>
    ELSE LET l == Head(left)
             m == SelectSeq(right, LAMBDA r : r.year = l.year /\ r.month = l.month)
         IN (IF m = << >> THEN <<capture_columns(l, NaN, NaN)>>
             ELSE [j \in 1..Len(m) |-> capture_columns(l, m[j].solar_mw_pos, m[j].solar_rev_pos)])
            \o merge_capture(Tail(left), right)

\* the call's outcome: the objects after the call and the returned table
calculate_capture_prices(h, arg) ==
    LET c == copy(h, arg, "cp_df")
        h1 == setitem(c.heap, c.ref, "solar_revenue", solar_revenue(c.heap[c.ref]))
        all == h1[c.ref].rows
        df_pos == Filter(h1[c.ref], price_nonneg(h1[c.ref])).rows
    IN [heap |-> h1, table |-> merge_capture(monthly_grouped(all), monthly_pos(df_pos))]

(* ------------------------ main: yearly overview ----------------------- *)

YearKey == <<"year">>

y_grp(rows) ==
    LET keys == GroupKeys(rows, YearKey)
    IN [i \in 1..Len(keys) |->
          LET g == GroupRows(rows, YearKey, keys[i])
          IN [year |-> keys[i][1],
              solar_mw_avg |-> Int2F(SumSeq(ColumnOf(g, "solar_mw_avg"))),
              solar_revenue |-> Int2F(SumSeq(ColumnOf(g, "solar_revenue"))),
              day_ahead_price_eur_mwh |-> Mean(ColumnOf(g, "day_ahead_price_eur_mwh"))]]

y_pos_grp(rows) ==
    LET keys == GroupKeys(rows, YearKey)
    IN [i \in 1..Len(keys) |->
          LET g == GroupRows(rows, YearKey, keys[i])
          IN [year |-> keys[i][1],
              solar_mw_avg |-> Int2F(SumSeq(ColumnOf(g, "solar_mw_avg"))),
              solar_revenue |-> Int2F(SumSeq(ColumnOf(g, "solar_revenue")))]]

\* the value of a Series at an index label, NaN where the label is missing
\* (pd.DataFrame aligns its column Series on the union of their indexes)
AtYear(series, y) ==
    LET m == SelectSeq(series, LAMBDA e : e.year = y)
    IN IF m = << >> THEN NaN ELSE m[1].value

\* the yearly overview with PV Price taken as the mean of the year's monthly pv_price
yearly_overview_from_months(h, arg) ==
    LET c == calculate_capture_prices(h, arg)
        years == GroupKeys(c.table, YearKey)
    IN [heap |-> h,
        table |-> [i \in 1..Len(years) |->
                     LET y == years[i][1]
                         ms == SelectSeq(c.table, LAMBDA r : r.year = y)
                         pv == MeanSkipNa(ColumnOf(ms, "pv_price"))
                         base == Mean(ColumnOf(SelectSeq(h[arg].rows, LAMBDA r : r["year"] = y),
                                               "day_ahead_price_eur_mwh"))
                     IN [year |-> y, pv_price |-> pv,
                         pv_price_pos |-> MeanSkipNa(ColumnOf(ms, "pv_price_pos")),
                         baseload_price |-> base,
                         capture_rate |-> FDiv(pv, base)]]]

yearly_overview(h, arg) ==
    LET c == copy(h, arg, "yearly_df")
        h1 == setitem(c.heap, c.ref, "solar_revenue", solar_revenue(c.heap[c.ref]))
        all == h1[c.ref].rows
        yearly_pos == Filter(h1[c.ref], price_nonneg(h1[c.ref])).rows
        g == y_grp(all)
        p == y_pos_grp(yearly_pos)
        pv == [i \in 1..Len(g) |->
                 [year |-> g[i].year, value |-> FDiv(g[i].solar_revenue, g[i].solar_mw_avg)]]
        pvpos == [i \in 1..Len(p) |->
                    [year |-> p[i].year, value |-> FDiv(p[i].solar_revenue, p[i].solar_mw_avg)]]
        base == [i \in 1..Len(g) |-> [year |-> g[i].year, value |-> g[i].day_ahead_price_eur_mwh]]
        index == SortedKeys({<<pv[i].year>> : i \in 1..Len(pv)}
                            \cup {<<pvpos[i].year>> : i \in 1..Len(pvpos)}
                            \cup {<<base[i].year>> : i \in 1..Len(base)})
    IN [heap |-> h1,
        table |-> [i \in 1..Len(index) |->
                     LET y == index[i][1]
                     IN [year |-> y, pv_price |-> AtYear(pv, y),
                         pv_price_pos |-> AtYear(pvpos, y),
                         baseload_price |-> AtYear(base, y),
                         capture_rate |-> FDiv(AtYear(pv, y), AtYear(base, y))]]]

(* ------------------------------ load_data ----------------------------- *)

NoFile == [exists |-> FALSE, rows |-> << >>]
CsvFile(rows) == [exists |-> TRUE, rows |-> rows]

EmptyCache == [filled |-> FALSE, value |-> None]

\* load_data without the cache decorator: the body runs on every call
load_data_uncached(c, f, n) ==
    IF ~f.exists THEN [cache |-> [filled |-> TRUE, value |-> None], reads |-> n, value |-> None]
    ELSE LET v == load_data_body(f.rows)
         IN [cache |-> [filled |-> TRUE, value |-> v], reads |-> n + 1, value |-> v]

\* @st.cache_data def load_data(): the body runs when the cache holds no entry for
\* the call, and its return value (None included) is stored; every call returns a
\* copy of the stored value. The result: the cache and the number of pd.read_csv
\* calls after the call, and the value returned
load_data(c, f, n) ==
    IF c.filled THEN [cache |-> c, reads |-> n, value |-> c.value]
    ELSE IF ~f.exists THEN [cache |-> [filled |-> TRUE, value |-> None], reads |-> n, value |-> None]
    ELSE LET v == load_data_body(f.rows)
         IN [cache |-> [filled |-> TRUE, value |-> v], reads |-> n + 1, value |-> v]

(* -------------------------------- main -------------------------------- *)

NotComputed == [computed |-> FALSE, table |-> << >>]
Computed(t) == [computed |-> TRUE, table |-> t]

\* main without the check of line 87
df_is_None_skipped(v) == FALSE

\* line 87: if df is None
df_is_None(v) == v = None

\* calendar.month_name
month_name == <<"January", "February", "March", "April", "May", "June", "July",
                "August", "September", "October", "November", "December">>

\* list(calendar.month_name).index(name)
month_index(name) == CHOOSE i \in 1..Len(month_name) : month_name[i] = name

\* the months picked in a month selectbox: one the files have rows for, one they have not
MonthOptions == {"January", "December"}

\* sorted(df['year'].unique())
YearsOf(f) == {f.rows[i]["year"] : i \in 1..Len(f.rows)}

\* lines 83-91: a script run starts; load_data, then the error or the tabs
Rerun ==
    /\ pc \in {"idle", "done", "aborted", "crashed"}
    /\ runs < MaxReruns
    /\ runs' = runs + 1
    /\ LET r == load_data(cache, file, reads)
       IN /\ cache' = r.cache
          /\ reads' = r.reads
          /\ df' = r.value
          /\ IF df_is_None(r.value)
             THEN ui' = <<"error">> /\ pc' = "aborted"
             ELSE ui' = << >> /\ pc' = "tab1"
    /\ calls' = {"load_data"}
    /\ UNCHANGED <<file, stats_df, cap_df, y_res, changed>>

\* lines 93-113: the monthly statistics table (the year multiselect and the cell
\* formats only choose what is displayed); an exception ends the script run
Tab1 ==
    /\ pc = "tab1"
    /\ calls' = calls \cup {"calculate_monthly_stats"}
    /\ LET r == calculate_monthly_stats(df)
       IN IF r.raised
          THEN /\ pc' = "crashed"
               /\ ui' = Append(ui, "exception")
               /\ UNCHANGED stats_df
          ELSE /\ pc' = "tab2"
               /\ ui' = Append(ui, "stats_table")
               /\ stats_df' = Computed(r.table)
    /\ UNCHANGED <<file, cache, reads, df, cap_df, y_res, runs, changed>>

\* lines 115-152: the monthly capture prices and the yearly overview
Tab2 ==
    /\ pc = "tab2"
    /\ calls' = calls \cup {"calculate_capture_prices"}
    /\ LET c == calculate_capture_prices(HeapOf(df), "df")
           y == yearly_overview(c.heap, "df")
       IN /\ cap_df' = Computed(c.table)
          /\ y_res' = Computed(y.table)
          /\ df' = y.heap["df"]
    /\ ui' = ui \o <<"yearly_table", "monthly_table">>
    /\ pc' = "tab3"
    /\ UNCHANGED <<file, cache, reads, stats_df, runs, changed>>

\* lines 154-176: the scatter plot of one selected month
Tab3Scatter ==
    /\ pc = "tab3"
    /\ \E sel_year \in YearsOf(df), sel_month \in MonthOptions :
          LET month_idx == month_index(sel_month)
              h == getitem_mask(HeapOf(df), "df", "sel1", year_month_mask(df, sel_year, month_idx))
          IN /\ ui' = Append(ui, IF h["sel1"].rows = << >> THEN "warning" ELSE "scatter_chart")
             /\ df' = h["df"]
    /\ pc' = "compare"
    /\ UNCHANGED <<file, cache, reads, calls, stats_df, cap_df, y_res, runs, changed>>

\* lines 178-203: the two labelled months of the comparison chart
Tab3Compare ==
    /\ pc = "compare"
    /\ \E y1 \in YearsOf(df), m1 \in MonthOptions, y2 \in YearsOf(df), m2 \in MonthOptions :
          LET h1 == getitem_mask(HeapOf(df), "df", "sel1",
                                 year_month_mask(df, y1, month_index(m1)))
              c1 == copy(h1, "sel1", "d1")
              h2 == setitem(c1.heap, c1.ref, "Label",
                            [i \in 1..Len(c1.heap[c1.ref].rows) |-> <<m1, y1>>])
              h3 == getitem_mask(h2, "df", "sel2",
                                 year_month_mask(h2["df"], y2, month_index(m2)))
              c2 == copy(h3, "sel2", "d2")
              h4 == setitem(c2.heap, c2.ref, "Label",
                            [i \in 1..Len(c2.heap[c2.ref].rows) |-> <<m2, y2>>])
              comp_data == h4[c1.ref].rows \o h4[c2.ref].rows
          IN /\ ui' = (IF comp_data # << >> THEN Append(ui, "compare_chart") ELSE ui)
             /\ df' = h4["df"]
    /\ pc' = "done"
    /\ UNCHANGED <<file, cache, reads, calls, stats_df, cap_df, y_res, runs, changed>>

\* the rows a newly written CSV file holds
ReplacementRows == DayRows(AllSlots[1], Ramp8)

\* another program writes the CSV file (new content, or a file where there was
\* none) between script runs
ChangeFile ==
    /\ pc \in {"idle", "done", "aborted", "crashed"}
    /\ ~changed
    /\ file # CsvFile(ReplacementRows)
    /\ file' = CsvFile(ReplacementRows)
    /\ changed' = TRUE
    /\ UNCHANGED <<cache, reads, df, pc, ui, calls, stats_df, cap_df, y_res, runs>>

Init ==
    /\ file \in {NoFile} \cup {CsvFile(r) : r \in Datasets}
    /\ cache = EmptyCache
    /\ reads = 0
    /\ df = None
    /\ pc = "idle"
    /\ ui = << >>
    /\ calls = {}
    /\ stats_df = NotComputed
    /\ cap_df = NotComputed
    /\ y_res = NotComputed
    /\ runs = 0
    /\ changed = FALSE

Next == Rerun \/ Tab1 \/ Tab2 \/ Tab3Scatter \/ Tab3Compare \/ ChangeFile

Spec == Init /\ [][Next]_vars

(* ====================================================================== *)
(* Properties                                                             *)
(* ====================================================================== *)

\* the record set load_data returned, and its rows
Loaded == cache.value
LoadedRows == cache.value.rows

Price(rows) == [i \in 1..Len(rows) |-> rows[i]["day_ahead_price_eur_mwh"]]
Solar(rows) == [i \in 1..Len(rows) |-> rows[i]["solar_mw_avg"]]
Revenue(rows) ==
    [i \in 1..Len(rows) |-> rows[i]["solar_mw_avg"] * rows[i]["day_ahead_price_eur_mwh"]]

InMonth(rows, y, m) == {i \in 1..Len(rows) : rows[i]["year"] = y /\ rows[i]["month"] = m}
InYear(rows, y) == {i \in 1..Len(rows) : rows[i]["year"] = y}
MonthsOf(rows) == {<<rows[i]["year"], rows[i]["month"]>> : i \in 1..Len(rows)}

\* the sum of v over the index set I
RECURSIVE ExpSum(_, _)
ExpSum(v, I) ==
    IF I = {} THEN 0
    ELSE LET i == CHOOSE j \in I : TRUE IN v[i] + ExpSum(v, I \ {i})

\* the arithmetic mean of v over I, undefined over no index
ExpMean(v, I) == IF I = {} THEN NaN ELSE Num(ExpSum(v, I), Cardinality(I))

\* the sum of the k largest (smallest) values of v over I
RECURSIVE TopSum(_, _, _)
TopSum(v, I, k) ==
    IF k = 0 THEN 0
    ELSE LET i == CHOOSE j \in I : \A o \in I : v[o] <= v[j]
         IN v[i] + TopSum(v, I \ {i}, k - 1)

RECURSIVE BottomSum(_, _, _)
BottomSum(v, I, k) ==
    IF k = 0 THEN 0
    ELSE LET i == CHOOSE j \in I : \A o \in I : v[j] <= v[o]
         IN v[i] + BottomSum(v, I \ {i}, k - 1)

OnDay(rows, d) == {i \in 1..Len(rows) : rows[i]["date"] = d}
DaysOfMonth(rows, y, m) == {rows[i]["date"] : i \in InMonth(rows, y, m)}
LongDays(rows, y, m) == {d \in DaysOfMonth(rows, y, m) : Cardinality(OnDay(rows, d)) >= 8}
ShortDays(rows, y, m) == DaysOfMonth(rows, y, m) \ LongDays(rows, y, m)

\* four times the spread of day d: the 4 highest prices minus the 4 lowest
Spread4(rows, d) ==
    TopSum(Price(rows), OnDay(rows, d), 4) - BottomSum(Price(rows), OnDay(rows, d), 4)

RECURSIVE Spread4Sum(_, _)
Spread4Sum(rows, D) ==
    IF D = {} THEN 0
    ELSE LET d == CHOOSE e \in D : TRUE IN Spread4(rows, d) + Spread4Sum(rows, D \ {d})

\* the mean of the daily spreads over the days of the month that have 8 rows or more
ExpAvgSpread(rows, y, m) ==
    LET D == LongDays(rows, y, m)
    IN IF D = {} THEN NaN ELSE Num(Spread4Sum(rows, D), 4 * Cardinality(D))

\* C1: when the CSV file does not exist, load_data returns None without reading
\* anything, and main emits exactly one error message and returns: neither
\* calculate_monthly_stats nor calculate_capture_prices is called, no table or
\* chart is rendered, and the run is in no other error state.
C1_MissingFileAborts ==
    (cache.filled /\ cache.value = None) =>
        /\ reads = 0
        /\ pc = "aborted"
        /\ ui = <<"error">>
        /\ calls = {"load_data"}
        /\ ~stats_df.computed /\ ~cap_df.computed /\ ~y_res.computed

C1_Witness == pc = "aborted" /\ ~file.exists /\ ~changed /\ ui = <<"error">>

HasRecords == cache.filled /\ cache.value # None

\* C2: the spread daily_spread gives a day is the mean of its 4 highest prices
\* minus the mean of its 4 lowest when the day has at least 8 hourly rows and is
\* undefined otherwise; the day with the prices 10,20,...,80 has the spread 40;
\* and avg_spread of every month in the table calculate_monthly_stats returns is
\* the mean of the daily spreads over exactly the days with at least 8 rows
\* (shorter days are neither counted as 0 nor in the divisor).
C2_AvgSpread ==
    /\ daily_spread(DayRows(AllSlots[1], Ramp8)) = Num(40, 1)
    /\ HasRecords =>
          \A d \in {LoadedRows[i]["date"] : i \in 1..Len(LoadedRows)} :
             daily_spread(SelectSeq(LoadedRows, LAMBDA r : r["date"] = d))
                = IF Cardinality(OnDay(LoadedRows, d)) >= 8
                  THEN Num(Spread4(LoadedRows, d), 4) ELSE PyNone
    /\ stats_df.computed =>
          \A i \in 1..Len(stats_df.table) :
             LET r == stats_df.table[i]
             IN r.avg_spread = ExpAvgSpread(LoadedRows, r.year, r.month)

\* a month with a day of 8 rows (spread 40) and a shorter day: the average is 40
C2_Witness ==
    /\ stats_df.computed
    /\ \E i \in 1..Len(stats_df.table) :
          LET r == stats_df.table[i]
          IN /\ ShortDays(LoadedRows, r.year, r.month) # {}
             /\ LongDays(LoadedRows, r.year, r.month) # {}
             /\ r.avg_spread = Num(40, 1)

\* the rows of month <<y, m>> with a residual load below 0, and above 60000
NegRes(rows, y, m) == {j \in InMonth(rows, y, m) : rows[j]["residual_load_mw_avg"] < 0}
HighRes(rows, y, m) == {j \in InMonth(rows, y, m) : rows[j]["residual_load_mw_avg"] > 60000}

\* C3: for every (year, month) group of the records, monthly_agg gives
\* avg_price_res_neg as the mean price over exactly the rows with residual load < 0
\* and avg_price_res_high as the mean price over exactly the rows with residual
\* load > 60000, each undefined, never 0, when no row passes its filter; the table
\* calculate_monthly_stats returns holds these values.
C3_ResidualFilters ==
    /\ HasRecords =>
          \A k \in MonthsOf(LoadedRows) :
             LET a == monthly_agg(SelectSeq(LoadedRows,
                                            LAMBDA r : r["year"] = k[1] /\ r["month"] = k[2]))
                 neg == NegRes(LoadedRows, k[1], k[2])
                 high == HighRes(LoadedRows, k[1], k[2])
             IN /\ a.avg_price_res_neg = ExpMean(Price(LoadedRows), neg)
                /\ a.avg_price_res_high = ExpMean(Price(LoadedRows), high)
                /\ (neg = {} => a.avg_price_res_neg = NaN /\ a.avg_price_res_neg # Num(0, 1))
                /\ (high = {} => a.avg_price_res_high = NaN /\ a.avg_price_res_high # Num(0, 1))
    /\ stats_df.computed =>
          \A i \in 1..Len(stats_df.table) :
             LET r == stats_df.table[i]
             IN /\ r.avg_price_res_neg = ExpMean(Price(LoadedRows), NegRes(LoadedRows, r.year, r.month))
                /\ r.avg_price_res_high = ExpMean(Price(LoadedRows), HighRes(LoadedRows, r.year, r.month))

\* a month with rows at residual load exactly 0 and exactly 60000, and a month in
\* which no row passes either filter
C3_Witness ==
    /\ stats_df.computed
    /\ \E i \in 1..Len(stats_df.table) :
          LET r == stats_df.table[i]
              M == InMonth(LoadedRows, r.year, r.month)
          IN /\ \E j \in M : LoadedRows[j]["residual_load_mw_avg"] = 0
             /\ \E j \in M : LoadedRows[j]["residual_load_mw_avg"] = 60000
             /\ IsNum(r.avg_price_res_neg) /\ IsNum(r.avg_price_res_high)
    /\ \E i \in 1..Len(stats_df.table) :
          /\ stats_df.table[i].avg_price_res_neg = NaN
          /\ stats_df.table[i].avg_price_res_high = NaN

\* the solar-weighted price of the rows I: sum(solar * price) / sum(solar)
ExpPv(rows, I) == FDiv(Int2F(ExpSum(Revenue(rows), I)), Int2F(ExpSum(Solar(rows), I)))

NonNeg(rows, I) == {j \in I : rows[j]["day_ahead_price_eur_mwh"] >= 0}

Zero == Num(0, 1)
One == Num(1, 1)

\* C4: capture_rate of a month (calculate_capture_prices) and of a year (yearly
\* overview) is undefined whenever the group's baseload_price is 0, whatever its
\* pv_price: it is never a number and never infinite there.
C4_UndefinedAtZeroBaseload ==
    /\ cap_df.computed =>
          \A i \in 1..Len(cap_df.table) :
             cap_df.table[i].baseload_price = Zero => cap_df.table[i].capture_rate = NaN
    /\ y_res.computed =>
          \A i \in 1..Len(y_res.table) :
             y_res.table[i].baseload_price = Zero => y_res.table[i].capture_rate = NaN

\* C5 as claimed: capture_rate of a month or year is 1 exactly when pv_price equals
\* baseload_price, both defined, the case of both being 0 included.
C5_OneIffEqual ==
    /\ cap_df.computed =>
          \A i \in 1..Len(cap_df.table) :
             LET r == cap_df.table[i]
             IN (r.capture_rate = One) <=>
                   (IsNum(r.pv_price) /\ IsNum(r.baseload_price) /\ r.pv_price = r.baseload_price)
    /\ y_res.computed =>
          \A i \in 1..Len(y_res.table) :
             LET r == y_res.table[i]
             IN (r.capture_rate = One) <=>
                   (IsNum(r.pv_price) /\ IsNum(r.baseload_price) /\ r.pv_price = r.baseload_price)

\* C5 as amended: capture_rate of a month or year is 1 exactly when pv_price equals
\* baseload_price and both are defined and not 0; when both are 0 it is undefined.
C5_OneIffEqualNonZero ==
    /\ cap_df.computed =>
          \A i \in 1..Len(cap_df.table) :
             LET r == cap_df.table[i]
             IN /\ (r.capture_rate = One) <=>
                      (/\ IsNum(r.pv_price) /\ IsNum(r.baseload_price)
                       /\ r.pv_price = r.baseload_price /\ r.baseload_price # Zero)
                /\ (r.pv_price = Zero /\ r.baseload_price = Zero) => r.capture_rate = NaN
    /\ y_res.computed =>
          \A i \in 1..Len(y_res.table) :
             LET r == y_res.table[i]
             IN /\ (r.capture_rate = One) <=>
                      (/\ IsNum(r.pv_price) /\ IsNum(r.baseload_price)
                       /\ r.pv_price = r.baseload_price /\ r.baseload_price # Zero)
                /\ (r.pv_price = Zero /\ r.baseload_price = Zero) => r.capture_rate = NaN

\* a month with equal non-zero prices (rate 1) beside a month with both prices 0
C5_Witness ==
    /\ cap_df.computed
    /\ \E i \in 1..Len(cap_df.table) :
          LET r == cap_df.table[i]
          IN r.pv_price = r.baseload_price /\ r.baseload_price # Zero /\ r.capture_rate = One
    /\ \E i \in 1..Len(cap_df.table) :
          LET r == cap_df.table[i]
          IN r.pv_price = Zero /\ r.baseload_price = Zero /\ r.capture_rate = NaN

\* the rows of the monthly capture table that belong to year y
MonthsOfYear(y) == SelectSeq(cap_df.table, LAMBDA r : r.year = y)

\* C6: the yearly overview's PV Price of a year is sum(solar * price) / sum(solar)
\* over all hours of the year, the formula the monthly pv_price applies to the
\* hours of a month; it is computed from the hourly records.
C6_YearlyFromHours ==
    /\ y_res.computed =>
          \A i \in 1..Len(y_res.table) :
             y_res.table[i].pv_price = ExpPv(LoadedRows, InYear(LoadedRows, y_res.table[i].year))
    /\ cap_df.computed =>
          \A i \in 1..Len(cap_df.table) :
             LET r == cap_df.table[i]
             IN r.pv_price = ExpPv(LoadedRows, InMonth(LoadedRows, r.year, r.month))

\* a year of two months whose PV Price is not the mean of the two monthly pv_price
C6_Witness ==
    /\ y_res.computed /\ cap_df.computed /\ pc = "tab3"
    /\ \E i \in 1..Len(y_res.table) :
          LET r == y_res.table[i]
              ms == MonthsOfYear(r.year)
          IN /\ Len(ms) >= 2
             /\ \A j \in 1..Len(ms) : IsNum(ms[j].pv_price)
             /\ IsNum(r.pv_price)
             /\ r.pv_price # MeanSkipNa(ColumnOf(ms, "pv_price"))

\* C7: pv_price_pos of a month or year is undefined when the group has no hour with
\* a non-negative price or when the solar sum over those hours is 0; the group's
\* row is still there, exactly once, with pv_price, baseload_price and
\* capture_rate computed as for any group.
C7_PosUndefinedRowKept ==
    /\ cap_df.computed =>
          /\ {<<cap_df.table[i].year, cap_df.table[i].month>> : i \in 1..Len(cap_df.table)}
                = MonthsOf(LoadedRows)
          /\ Len(cap_df.table) = Cardinality(MonthsOf(LoadedRows))
          /\ \A i \in 1..Len(cap_df.table) :
                LET r == cap_df.table[i]
                    M == InMonth(LoadedRows, r.year, r.month)
                    pos == NonNeg(LoadedRows, M)
                IN /\ (pos = {} \/ ExpSum(Solar(LoadedRows), pos) = 0) => r.pv_price_pos = NaN
                   /\ r.pv_price = ExpPv(LoadedRows, M)
                   /\ r.baseload_price = ExpMean(Price(LoadedRows), M)
                   /\ r.capture_rate = FDiv(r.pv_price, r.baseload_price)
    /\ y_res.computed =>
          /\ {y_res.table[i].year : i \in 1..Len(y_res.table)} = YearsOf(Loaded)
          /\ Len(y_res.table) = Cardinality(YearsOf(Loaded))
          /\ \A i \in 1..Len(y_res.table) :
                LET r == y_res.table[i]
                    Y == InYear(LoadedRows, r.year)
                    pos == NonNeg(LoadedRows, Y)
                IN /\ (pos = {} \/ ExpSum(Solar(LoadedRows), pos) = 0) => r.pv_price_pos = NaN
                   /\ r.pv_price = ExpPv(LoadedRows, Y)
                   /\ r.baseload_price = ExpMean(Price(LoadedRows), Y)
                   /\ r.capture_rate = FDiv(r.pv_price, r.baseload_price)

\* a month whose non-negative-price hours have no solar output, and a month and a
\* year without any non-negative-price hour, each with its row and a defined pv_price
C7_Witness ==
    /\ cap_df.computed /\ y_res.computed
    /\ \E i \in 1..Len(cap_df.table) :
          LET r == cap_df.table[i]
              pos == NonNeg(LoadedRows, InMonth(LoadedRows, r.year, r.month))
          IN pos # {} /\ ExpSum(Solar(LoadedRows), pos) = 0 /\ r.pv_price_pos = NaN /\ IsNum(r.pv_price)
    /\ \E i \in 1..Len(cap_df.table) :
          LET r == cap_df.table[i]
          IN /\ NonNeg(LoadedRows, InMonth(LoadedRows, r.year, r.month)) = {}
             /\ r.pv_price_pos = NaN /\ IsNum(r.pv_price) /\ IsNum(r.capture_rate)
    /\ \E i \in 1..Len(y_res.table) :
          LET r == y_res.table[i]
          IN /\ NonNeg(LoadedRows, InYear(LoadedRows, r.year)) = {}
             /\ r.pv_price_pos = NaN /\ IsNum(r.pv_price) /\ IsNum(r.capture_rate)

\* C8: no aggregation or view changes the loaded record set: through every call of
\* calculate_monthly_stats, calculate_capture_prices, the yearly overview and the
\* scatter and compare filters, main's record set has the rows, columns and values
\* load_data returned.
C8_RecordSetUnchanged ==
    /\ df = cache.value
    /\ cache.filled /\ cache.value # None =>
          df.cols = CsvColumns \cup {"datetime", "year", "month", "date"}

C8_Witness ==
    /\ pc = "done" /\ df # None
    /\ calls = {"load_data", "calculate_monthly_stats", "calculate_capture_prices"}
    /\ ui = <<"stats_table", "yearly_table", "monthly_table", "scatter_chart", "compare_chart">>

\* C9: across script reruns in one process, while the CSV content does not change,
\* the file is read at most once, every later load_data call returns the cached
\* record set, and the tables of any two reruns are identical.
C9_LoadedOnce ==
    /\ [](~changed => reads <= 1)
    /\ [][(cache.filled /\ ~changed') => (cache' = cache /\ reads' = reads)]_vars
    /\ [][(cache.filled /\ ~changed' /\ runs' # runs) => df' = cache.value]_vars
    /\ [][(~changed' /\ stats_df.computed) => stats_df' = stats_df]_vars
    /\ [][(~changed' /\ cap_df.computed) => cap_df' = cap_df]_vars
    /\ [][(~changed' /\ y_res.computed) => y_res' = y_res]_vars

\* the second rerun has recomputed every table and the file was read once
C9_Witness ==
    /\ runs = 2 /\ ~changed /\ reads = 1 /\ pc = "done"
    /\ stats_df.computed /\ cap_df.computed /\ y_res.computed

\* C10: calculate_monthly_stats returns exactly one row for every (year, month) of
\* the records and none for any other pair, a month whose days all have fewer than
\* 8 rows included (its avg_spread undefined).
C10_OneRowPerMonth ==
    "calculate_monthly_stats" \in calls =>
        /\ pc # "crashed"
        /\ stats_df.computed
        /\ {<<stats_df.table[i].year, stats_df.table[i].month>> : i \in 1..Len(stats_df.table)}
              = MonthsOf(LoadedRows)
        /\ Len(stats_df.table) = Cardinality(MonthsOf(LoadedRows))
        /\ \A i \in 1..Len(stats_df.table) :
              LongDays(LoadedRows, stats_df.table[i].year, stats_df.table[i].month) = {}
                 => stats_df.table[i].avg_spread = NaN

====
